---- MODULE Spec2Model ----
(***************************************************************************)
(* Bin2Obj (src/Main.cpp): the extraction pipeline of main().              *)
(*                                                                         *)
(*   open input -> seek -> vertex loop -> face loop -> close input         *)
(*   -> open output -> header and "v" lines -> "f" lines -> close -> exit  *)
(*                                                                         *)
(* The input file is a sequence of bytes.  Integer widths are kept, with   *)
(* the number of bits of a byte scaled down to CharBit: uint16_t is two    *)
(* bytes, uint32_t / unsigned int / float four bytes, unsigned long / long *)
(* / size_t eight bytes, exactly as on the LP64 build, so every wrap-around*)
(* of the program (unsigned subtraction, truncation to unsigned int, the   *)
(* +1 of the writer, the signed reading of "%d") happens in the model.     *)
(* VPrint output (verbose only) is left out: it changes no state.          *)
(***************************************************************************)
EXTENDS Integers, Sequences, FiniteSets, TLC

VARIABLES
    env,            \* the Environment struct but for the two vectors (lines 41-67)
    meshVertices,   \* env.meshVertices
    meshFaces,      \* env.meshFaces, after validation
    disk,           \* the bytes of the input file
    file,           \* the FILE* variable of main: "null", "in" or "out"
    stream,         \* the stream behind file: position, EOF flag, seekable
    openStreams,    \* the streams the process holds open
    pc,             \* position in main
    numFaces,       \* line 237
    i,              \* the face loop's counter
    wi,             \* the writer's position in meshFaces
    out,            \* the lines written to the output file
    stdout,         \* the diagnostics printed
    exitStatus,     \* "none" while running, then how the process ended
    faceLog         \* per stored face: where it was decoded, what was decoded

vars == << env, meshVertices, meshFaces, disk, file, stream, openStreams, pc,
           numFaces, i, wi, out, stdout, exitStatus, faceLog >>

-----------------------------------------------------------------------------
(* Widths.                                                                 *)

CharBit == 2

SizeU16 == 2
SizeU32 == 4
SizeVertex == 12
SizeFace == 16

RECURSIVE Pow(_, _)
Pow(b, e) == IF e = 0 THEN 1 ELSE b * Pow(b, e - 1)

ByteMod == Pow(2, CharBit)
U16Mod  == Pow(2, 2 * CharBit)
U32Mod  == Pow(2, 4 * CharBit)
U64Mod  == Pow(2, 8 * CharBit)
LONG_MAX == (U64Mod \div 2) - 1

Min(a, b) == IF a < b THEN a ELSE b

\* (long) of an unsigned long (lines 144, 214, 348)
ToLong(u) == IF u > LONG_MAX THEN u - U64Mod ELSE u
\* (unsigned long) of a long (the comparisons of lines 211 and 242)
ToULong(l) == l % U64Mod
\* (unsigned int) of an unsigned long (line 237)
ToUInt(u) == u % U32Mod
\* what "%d" prints for an unsigned int argument (line 383)
AsInt(u) == IF u >= U32Mod \div 2 THEN u - U32Mod ELSE u
\* (float) of an int16_t read from two bytes (lines 188-190)
AsInt16(u) == IF u >= U16Mod \div 2 THEN u - U16Mod ELSE u

\* little-endian value of a sequence of bytes
RECURSIVE LE(_)
LE(bs) == IF bs = << >> THEN 0 ELSE Head(bs) + ByteMod * LE(Tail(bs))

\* the size bytes that store v, little-endian
RECURSIVE Enc(_, _)
Enc(v, size) == IF size = 0 THEN << >>
                ELSE << v % ByteMod >> \o Enc(v \div ByteMod, size - 1)

RECURSIVE EncAll(_, _)
EncAll(ws, size) == IF ws = << >> THEN << >>
                    ELSE Enc(Head(ws), size) \o EncAll(Tail(ws), size)

-----------------------------------------------------------------------------
(* Inputs.                                                                 *)

U16Max == U16Mod - 1
U32Max == U32Mod - 1
LongMin == U64Mod \div 2      \* as unsigned long; (long) of it is negative

\* Input files: none shorter than makes a case, none longer than needed.
Files ==
    { << >>,
      \* shorter than one vertex record of either encoding
      EncAll(<< 0, 1 >>, SizeU16) \o << 1 >>,
      \* three 16-bit triangles: in range, duplicate index, out of range
      EncAll(<< 0, 1, 2,  0, 0, 1,  5, 1, 2 >>, SizeU16),
      \* one 32-bit quad whose w is the largest unsigned int, then two bytes
      EncAll(<< 2, 1, 0, U32Max >>, SizeU32) \o << 0, 0 >>,
      \* three 16-bit quads over four 16-bit vertices
      EncAll(<< 0, 1, 2, 3,  3, 2, 1, U16Max,  1, 2, 3, 0 >>, SizeU16) }

StartOffsets     == { 0, 6, LongMin }
EndOffsets       == { 0, 12 }
Strides          == { 0, 6, LongMin }
Scales           == { 1, 2 }
VertexTypes      == { "F32", "I16" }
FaceStartOffsets == { 0, 6, LongMin }
FaceEndOffsets   == { 0, 12, 16 }
FaceStrides      == { 0, 6, LongMin }
FaceTypes        == { "I16", "I32" }

Environments ==
    [ startOffset : StartOffsets, stride : Strides, endOffset : EndOffsets,
      scale : Scales, vertexType : VertexTypes,
      faceStartOffset : FaceStartOffsets, faceEndOffset : FaceEndOffsets,
      faceStride : FaceStrides, faceType : FaceTypes, faceQuad : BOOLEAN ]

-----------------------------------------------------------------------------
(* The C library.                                                          *)

\* fseek: fails on a stream that cannot seek and on a negative or
\* unrepresentable target; otherwise moves (also past the end of the file)
\* and clears the EOF flag.
FSeek(s, offset, fromStart) ==
    LET target == IF fromStart THEN offset ELSE s.pos + offset
        ok == s.seekable /\ target >= 0 /\ target <= LONG_MAX
    IN  [ ok |-> ok,
          stream |-> IF ok THEN [ s EXCEPT !.pos = target, !.eof = FALSE ] ELSE s ]

\* fread(buf, size, count, file): the bytes got, the complete items got
FRead(s, size, count) ==
    LET avail == IF s.pos < Len(disk) THEN Len(disk) - s.pos ELSE 0
        got   == Min(avail, size * count)
    IN  [ n |-> got \div size,
          bytes |-> SubSeq(disk, s.pos + 1, s.pos + got),
          stream |-> [ s EXCEPT !.pos = s.pos + got,
                                !.eof = s.eof \/ got < size * count ] ]

\* item k (from 0) of the bytes fread returned
Item(bytes, size, k) == LE(SubSeq(bytes, k * size + 1, (k + 1) * size))

-----------------------------------------------------------------------------
Init ==
    /\ env \in Environments
    /\ disk \in Files
    /\ meshVertices = << >>
    /\ meshFaces = << >>
    /\ file = "null"
    /\ stream = [ pos |-> 0, eof |-> FALSE, seekable |-> TRUE ]
    /\ openStreams = { }
    /\ pc = "open"
    /\ numFaces = 0
    /\ i = 0
    /\ wi = 0
    /\ out = << >>
    /\ stdout = << >>
    /\ exitStatus = "none"
    /\ faceLog = << >>

-----------------------------------------------------------------------------
(* Floats.  A float is kept as what it was decoded from and the factor it  *)
(* was multiplied by: the program only carries coordinates.  A 32-bit float*)
(* has one sign bit, CharBit exponent bits and 3 * CharBit - 1 mantissa    *)
(* bits (1, 8 and 23 when a byte has 8 bits).                              *)

MantMod == Pow(2, 3 * CharBit - 1)

IsNaNBits(bits) ==
    /\ (bits \div MantMod) % ByteMod = ByteMod - 1
    /\ bits % MantMod # 0

FromBits(bits) == [ enc |-> "f32", num |-> bits, mul |-> 1, nan |-> IsNaNBits(bits) ]
FromInt16(n)   == [ enc |-> "int", num |-> n, mul |-> 1, nan |-> FALSE ]
Zero           == FromInt16(0)

\* Vertex::operator*= (line 34); NaN times a finite scale is NaN
Scaled(v, s) == [ a \in DOMAIN v |-> [ v[a] EXCEPT !.mul = v[a].mul * s ] ]

Axes == << "x", "y", "z" >>

\* lines 202-208: the axes that are NaN, and the vertex with them zeroed
NaNAxes(v) == SelectSeq(Axes, LAMBDA a : v[a].nan)
Sanitized(v) == [ a \in DOMAIN v |-> IF v[a].nan THEN Zero ELSE v[a] ]

\* lines 174-194: the record decoded at the stream's position
VertexRead(s) ==
    IF env.vertexType = "I16"
    THEN LET r == FRead(s, SizeU16, 3)
         IN  [ success |-> r.n = 3, stream |-> r.stream,
               v |-> IF r.n = 3
                     THEN [ x |-> FromInt16(AsInt16(Item(r.bytes, SizeU16, 0))),
                            y |-> FromInt16(AsInt16(Item(r.bytes, SizeU16, 1))),
                            z |-> FromInt16(AsInt16(Item(r.bytes, SizeU16, 2))) ]
                     ELSE [ x |-> Zero, y |-> Zero, z |-> Zero ] ]
    ELSE LET r == FRead(s, SizeVertex, 1)
         IN  [ success |-> r.n = 1, stream |-> r.stream,
               v |-> IF r.n = 1
                     THEN [ x |-> FromBits(Item(r.bytes, SizeU32, 0)),
                            y |-> FromBits(Item(r.bytes, SizeU32, 1)),
                            z |-> FromBits(Item(r.bytes, SizeU32, 2)) ]
                     ELSE [ x |-> Zero, y |-> Zero, z |-> Zero ] ]

-----------------------------------------------------------------------------
(* Process exit and the two helpers of lines 143-151.                      *)

\* AbortApp (line 69): print, then exit( EXIT_FAILURE ).  The program closes
\* nothing on the way: openStreams is what it has opened and not fclose()d.
AbortApp(printed, msg) ==
    /\ stdout' = Append(printed, msg)
    /\ exitStatus' = "EXIT_FAILURE"
    /\ pc' = "exit"
    /\ UNCHANGED stream

\* FileSeek reporting the failure and carrying on
FileSeek_NoAbort(printed, numBytes, fromStart, next) ==
    LET r == FSeek(stream, ToLong(numBytes), fromStart)
    IN  /\ stream' = r.stream
        /\ stdout' = IF r.ok THEN printed
                     ELSE Append(printed, << "Failed to seek to", numBytes >>)
        /\ pc' = next
        /\ UNCHANGED exitStatus

\* FileSeek (lines 143-149); numBytes becomes the long fseek takes
FileSeek(printed, numBytes, fromStart, next) ==
    LET r == FSeek(stream, ToLong(numBytes), fromStart)
    IN  IF r.ok
        THEN /\ stream' = r.stream
             /\ stdout' = printed
             /\ pc' = next
             /\ UNCHANGED exitStatus
        ELSE AbortApp(printed, << "Failed to seek to", numBytes >>)

\* CloseFile (line 151)
CloseFile ==
    /\ openStreams' = IF file # "null" THEN openStreams \ { file } ELSE openStreams
    /\ file' = "null"

-----------------------------------------------------------------------------
(* Lines 164-167.                                                          *)

OpenInput ==
    /\ pc = "open"
    /\ \E seekable \in BOOLEAN :
          stream' = [ pos |-> 0, eof |-> FALSE, seekable |-> seekable ]
    /\ file' = "in"
    /\ openStreams' = openStreams \cup { "in" }
    /\ stdout' = Append(stdout, << "Loading" >>)
    /\ pc' = "seek"
    /\ UNCHANGED << env, meshVertices, meshFaces, disk, numFaces, i, wi, out,
                    exitStatus, faceLog >>

OpenInputFails ==
    /\ pc = "open"
    /\ AbortApp(Append(stdout, << "Loading" >>), << "Failed to open" >>)
    /\ UNCHANGED << env, meshVertices, meshFaces, disk, file, openStreams,
                    numFaces, i, wi, out, faceLog >>

(* Line 169.                                                               *)
SeekStart ==
    /\ pc = "seek"
    /\ FileSeek(stdout, env.startOffset, TRUE, "vloop")
    /\ UNCHANGED << env, meshVertices, meshFaces, disk, file, openStreams,
                    numFaces, i, wi, out, faceLog >>

(* Lines 171-218: one turn of the vertex loop.                             *)
ReadVertex ==
    /\ pc = "vloop"
    /\ IF stream.eof
       THEN /\ pc' = "faces"
            /\ UNCHANGED << stream, meshVertices, stdout >>
       ELSE LET r == VertexRead(stream)
                v == Scaled(r.v, env.scale)
                nan == NaNAxes(v)
                sk == FSeek(r.stream, ToLong(env.stride), FALSE)
            IN  IF ~r.success
                THEN /\ stdout' = Append(stdout,
                                    << "Failed to read in vertex at", r.stream.pos >>)
                     /\ stream' = r.stream
                     /\ pc' = "faces"
                     /\ UNCHANGED meshVertices
                ELSE /\ stdout' = IF nan # << >>
                                  THEN Append(stdout, << "WARNING: Encountered NaN for vertex", nan >>)
                                  ELSE stdout
                     /\ meshVertices' = Append(meshVertices, Sanitized(v))
                     /\ IF env.endOffset > 0 /\ ToULong(r.stream.pos) >= env.endOffset
                        THEN /\ stream' = r.stream
                             /\ pc' = "faces"
                        ELSE /\ stream' = sk.stream
                             /\ pc' = IF env.stride > 0 /\ ~sk.ok THEN "faces" ELSE "vloop"
    /\ UNCHANGED << env, meshFaces, disk, file, openStreams, numFaces, i, wi, out,
                    exitStatus, faceLog >>

-----------------------------------------------------------------------------
(* Faces.                                                                  *)

NoFace == [ x |-> 0, y |-> 0, z |-> 0, w |-> 0 ]      \* Face f; (line 245)

\* the Face seen as unsigned int[4] (line 365)
FV(f) == << f.x, f.y, f.z, f.w >>

\* the Face whose leading fields are vals, the others as initialized
FaceOf(vals) ==
    [ x |-> IF Len(vals) >= 1 THEN vals[1] ELSE 0,
      y |-> IF Len(vals) >= 2 THEN vals[2] ELSE 0,
      z |-> IF Len(vals) >= 3 THEN vals[3] ELSE 0,
      w |-> IF Len(vals) >= 4 THEN vals[4] ELSE 0 ]

\* lines 254-271 and 277-299: one fread per element, until one is short
RECURSIVE ReadElems(_, _, _, _)
ReadElems(s, size, todo, vals) ==
    IF todo = 0
    THEN [ vals |-> vals, stream |-> s, short |-> FALSE ]
    ELSE LET r == FRead(s, size, 1)
         IN  IF r.n # 1
             THEN [ vals |-> vals, stream |-> r.stream, short |-> TRUE ]
             ELSE ReadElems(r.stream, size, todo - 1,
                            Append(vals, Item(r.bytes, size, 0)))

\* the element the short-read warning names (lines 255, 261, 267, 278, 283,
\* 288, 295: the fourth element is reported as x)
ElementNames == << "x", "y", "z", "x" >>

\* n zero bytes
ZeroBytes(n) == [ k \in 1 .. n |-> 0 ]

\* lines 246-302: what one face record decodes to.  A short fread of the
\* whole Face (line 249) leaves its value indeterminate: the bytes got over
\* the initialized zeros, or the Face untouched.
FaceReads(s, n) ==
    IF env.faceType = "I32" /\ env.faceQuad
    THEN LET r == FRead(s, SizeFace, 1)
             whole(bs) == FaceOf([ k \in 1 .. 4 |-> Item(bs, SizeU32, k - 1) ])
         IN  IF r.n = 1
             THEN { [ f |-> whole(r.bytes), stream |-> r.stream, short |-> FALSE,
                      warn |-> << >> ] }
             ELSE { [ f |-> f, stream |-> r.stream, short |-> TRUE,
                      warn |-> << << "WARNING: Failed to read in face", n >> >> ] :
                    f \in { whole(r.bytes \o ZeroBytes(SizeFace - Len(r.bytes))),
                            NoFace } }
    ELSE LET size == IF env.faceType = "I16" THEN SizeU16 ELSE SizeU32
             want == IF env.faceType = "I16" /\ env.faceQuad THEN 4 ELSE 3
             r == ReadElems(s, size, want, << >>)
         IN  { [ f |-> FaceOf(r.vals), stream |-> r.stream, short |-> r.short,
                 warn |-> IF r.short
                          THEN << << "WARNING: Failed to load in face element",
                                     ElementNames[Len(r.vals) + 1], n >> >>
                          ELSE << >> ] }

\* lines 306-325: the quad's indices against the vertex count
ValidateQuad(f, size) ==
    IF f.x >= size \/ f.y >= size \/ f.z >= size \/ f.w >= size
    THEN LET f1 == IF f.x >= size THEN [ f EXCEPT !.x = 0 ] ELSE f
             f2 == IF f1.y >= size THEN [ f1 EXCEPT !.y = 0 ] ELSE f1
             f3 == IF f2.z >= size THEN [ f2 EXCEPT !.z = 0 ] ELSE f2
             f4 == IF f3.z >= size THEN [ f3 EXCEPT !.w = 0 ] ELSE f3
         IN  [ f |-> f4,
               warn |-> << << "WARNING: Encountered out of bound vertex index",
                              (IF f.x >= size THEN << << "X", f.x >> >> ELSE << >>)
                              \o (IF f1.y >= size THEN << << "Y", f.y >> >> ELSE << >>)
                              \o (IF f2.z >= size THEN << << "Z", f.z >> >> ELSE << >>)
                              \o (IF f3.z >= size THEN << << "W", f.w >> >> ELSE << >>) >> >> ]
    ELSE [ f |-> f, warn |-> << >> ]

\* the triangle's validation with > for >=
ValidateTriangle_StrictGreater(f, size) ==
    IF f.x > size \/ f.y > size \/ f.z > size
    THEN LET f1 == IF f.x > size THEN [ f EXCEPT !.x = 0 ] ELSE f
             f2 == IF f1.y > size THEN [ f1 EXCEPT !.y = 0 ] ELSE f1
             f3 == IF f2.z > size THEN [ f2 EXCEPT !.z = 0 ] ELSE f2
         IN  [ f |-> f3,
               warn |-> << << "WARNING: Encountered out of bound vertex index",
                              (IF f.x > size THEN << << "X", f.x >> >> ELSE << >>)
                              \o (IF f1.y > size THEN << << "Y", f.y >> >> ELSE << >>)
                              \o (IF f2.z > size THEN << << "Z", f.z >> >> ELSE << >>) >> >> ]
    ELSE [ f |-> f, warn |-> << >> ]

\* lines 329-345: the triangle's
ValidateTriangle(f, size) ==
    IF f.x >= size \/ f.y >= size \/ f.z >= size
    THEN LET f1 == IF f.x >= size THEN [ f EXCEPT !.x = 0 ] ELSE f
             f2 == IF f1.y >= size THEN [ f1 EXCEPT !.y = 0 ] ELSE f1
             f3 == IF f2.z >= size THEN [ f2 EXCEPT !.z = 0 ] ELSE f2
         IN  [ f |-> f3,
               warn |-> << << "WARNING: Encountered out of bound vertex index",
                              (IF f.x >= size THEN << << "X", f.x >> >> ELSE << >>)
                              \o (IF f1.y >= size THEN << << "Y", f.y >> >> ELSE << >>)
                              \o (IF f2.z >= size THEN << << "Z", f.z >> >> ELSE << >>) >> >> ]
    ELSE [ f |-> f, warn |-> << >> ]

\* lines 304-346
Validate(f, size) ==
    IF env.faceQuad THEN ValidateQuad(f, size) ELSE ValidateTriangle(f, size)

\* line 237
NumFaceElements == IF env.faceQuad THEN 4 ELSE 3
VarSize == IF env.faceType = "I16" THEN SizeU16 ELSE SizeU32

\* the guard taken relative to the start of the face range
PastFaceEnd_Relative(offset) ==
    ToULong(offset - env.faceStartOffset)
        > (env.faceEndOffset - env.faceStartOffset) % U64Mod

\* lines 241-243: the face loop stops before decoding at this position
PastFaceEnd(offset) == ToULong(offset) > env.faceEndOffset

(* Lines 219-238: the face range, the seek to its start, the face count.   *)
FaceSetup ==
    /\ pc = "faces"
    /\ LET printed == Append(stdout, << "Loaded in vertices", Len(meshVertices) >>)
           faceBytes == (env.faceEndOffset - env.faceStartOffset) % U64Mod
       IN  IF faceBytes > 0
           THEN /\ FileSeek(Append(printed, << "Attempting to read in faces..." >>),
                            env.faceStartOffset, TRUE, "floop")
                /\ numFaces' = ToUInt(faceBytes \div (VarSize * NumFaceElements))
           ELSE /\ stdout' = printed
                /\ pc' = "close"
                /\ UNCHANGED << numFaces, stream, exitStatus >>
    /\ i' = 0
    /\ UNCHANGED << env, meshVertices, meshFaces, disk, file, openStreams, wi, out,
                    faceLog >>

(* Lines 239-352: one turn of the face loop that decodes a record.         *)
ReadFace ==
    /\ pc = "floop"
    /\ i < numFaces
    /\ ~PastFaceEnd(stream.pos)
    /\ \E r \in FaceReads(stream, i) :
          LET v == Validate(r.f, Len(meshVertices))
              sk == FSeek(r.stream, ToLong(env.faceStride), FALSE)
              left == env.faceStride > 0 /\ ~sk.ok
              printed == stdout \o r.warn \o v.warn
          IN  /\ meshFaces' = Append(meshFaces, v.f)
              /\ faceLog' = Append(faceLog, [ at |-> stream.pos, raw |-> r.f,
                                              short |-> r.short ])
              /\ stream' = sk.stream
              /\ stdout' = IF left
                           THEN Append(printed, << "Loaded in faces", Len(meshFaces) + 1 >>)
                           ELSE printed
              /\ pc' = IF left THEN "close" ELSE "floop"
    /\ i' = i + 1
    /\ UNCHANGED << env, meshVertices, disk, file, openStreams, numFaces, wi, out,
                    exitStatus >>

(* Lines 239-243 and 353: the face loop ends.                              *)
FaceLoopEnd ==
    /\ pc = "floop"
    /\ i >= numFaces \/ PastFaceEnd(stream.pos)
    /\ stdout' = Append(stdout, << "Loaded in faces", Len(meshFaces) >>)
    /\ pc' = "close"
    /\ UNCHANGED << env, meshVertices, meshFaces, disk, file, stream, openStreams,
                    numFaces, i, wi, out, exitStatus, faceLog >>

-----------------------------------------------------------------------------
(* The writer.                                                             *)

\* the input left open
CloseInput_Leak ==
    /\ pc = "close"
    /\ pc' = "openout"
    /\ UNCHANGED << env, meshVertices, meshFaces, disk, file, stream, openStreams,
                    numFaces, i, wi, out, stdout, exitStatus, faceLog >>

(* Line 355.                                                               *)
CloseInput ==
    /\ pc = "close"
    /\ CloseFile
    /\ pc' = "openout"
    /\ UNCHANGED << env, meshVertices, meshFaces, disk, stream, numFaces, i, wi,
                    out, stdout, exitStatus, faceLog >>

(* Lines 357-358: fopen, and the header line.                              *)
OpenOutput ==
    /\ pc = "openout"
    /\ file' = "out"
    /\ openStreams' = openStreams \cup { "out" }
    /\ out' = << [ tag |-> "#", vals |-> << >>, src |-> 0 ] >>
    /\ pc' = "vwrite"
    /\ UNCHANGED << env, meshVertices, meshFaces, disk, stream, numFaces, i, wi,
                    stdout, exitStatus, faceLog >>

\* fopen returns nullptr and line 358 hands it to fprintf: undefined.  The
\* process traps there, or the call and every later one on the null stream
\* comes back having written nothing.
OpenOutputFails ==
    /\ pc = "openout"
    /\ file' = "null"
    /\ \E outcome \in { "trap", "ignored" } :
          IF outcome = "trap"
          THEN pc' = "exit" /\ exitStatus' = "fault"
          ELSE pc' = "vwrite" /\ UNCHANGED exitStatus
    /\ UNCHANGED << env, meshVertices, meshFaces, disk, stream, openStreams,
                    numFaces, i, wi, out, stdout, faceLog >>

(* Lines 359-361.                                                          *)
WriteVertices ==
    /\ pc = "vwrite"
    /\ out' = IF file = "out"
              THEN out \o [ k \in 1 .. Len(meshVertices) |->
                              [ tag |-> "v",
                                vals |-> << meshVertices[k].x, meshVertices[k].y,
                                            meshVertices[k].z >>,
                                src |-> k ] ]
              ELSE out
    /\ wi' = 0
    /\ pc' = "fwrite"
    /\ UNCHANGED << env, meshVertices, meshFaces, disk, file, stream, openStreams,
                    numFaces, i, stdout, exitStatus, faceLog >>

\* lines 368-375: the inner loop for one ii, given invalid so far
RECURSIVE InnerScan(_, _, _, _, _)
InnerScan(fv, n, ii, j, invalid) ==
    IF j >= n THEN invalid
    ELSE IF fv[ii + 1] = fv[j + 1] /\ ii # j THEN TRUE
    ELSE IF invalid THEN invalid
    ELSE InnerScan(fv, n, ii, j + 1, invalid)

\* invalid declared inside the outer loop
RECURSIVE OuterScan_ResetsInvalid(_, _, _, _)
OuterScan_ResetsInvalid(fv, n, ii, invalid) ==
    IF ii >= n THEN invalid
    ELSE OuterScan_ResetsInvalid(fv, n, ii + 1, InnerScan(fv, n, ii, 0, FALSE))

\* lines 366-376
RECURSIVE OuterScan(_, _, _, _)
OuterScan(fv, n, ii, invalid) ==
    IF ii >= n THEN invalid
    ELSE OuterScan(fv, n, ii + 1, InnerScan(fv, n, ii, 0, invalid))

Invalid(face) == OuterScan(FV(face), NumFaceElements, 0, FALSE)

\* lines 381-384: the numbers "%d" prints for fv[i] + 1
FaceLine(face, k) ==
    [ tag |-> "f",
      vals |-> [ e \in 1 .. NumFaceElements |-> AsInt((FV(face)[e] + 1) % U32Mod) ],
      src |-> k ]

(* Lines 364-385: one turn of the writer's face loop.                      *)
WriteFace ==
    /\ pc = "fwrite"
    /\ wi < Len(meshFaces)
    /\ out' = IF file = "out" /\ ~Invalid(meshFaces[wi + 1])
              THEN Append(out, FaceLine(meshFaces[wi + 1], wi + 1))
              ELSE out
    /\ wi' = wi + 1
    /\ UNCHANGED << env, meshVertices, meshFaces, disk, file, stream, openStreams,
                    pc, numFaces, i, stdout, exitStatus, faceLog >>

(* Lines 386-390.                                                          *)
CloseOutput ==
    /\ pc = "fwrite"
    /\ wi >= Len(meshFaces)
    /\ CloseFile
    /\ stdout' = Append(stdout, << "Wrote" >>)
    /\ exitStatus' = "EXIT_SUCCESS"
    /\ pc' = "exit"
    /\ UNCHANGED << env, meshVertices, meshFaces, disk, stream, numFaces, i, wi,
                    out, faceLog >>

-----------------------------------------------------------------------------
Next ==
    \/ OpenInput
    \/ OpenInputFails
    \/ SeekStart
    \/ ReadVertex
    \/ FaceSetup
    \/ ReadFace
    \/ FaceLoopEnd
    \/ CloseInput
    \/ OpenOutput
    \/ OpenOutputFails
    \/ WriteVertices
    \/ WriteFace
    \/ CloseOutput

Spec == Init /\ [][Next]_vars

\* the runs that read from the start of a file holding at least one vertex
\* record of either encoding: the vertex sequence is never empty
InitWithVertices == Init /\ env.startOffset = 0 /\ Len(disk) >= SizeVertex
SpecWithVertices == InitWithVertices /\ [][Next]_vars

-----------------------------------------------------------------------------
(* Properties.                                                             *)

VertexCount == Len(meshVertices)
Elements == 1 .. NumFaceElements

Printed(tag) == \E k \in DOMAIN stdout : stdout[k][1] = tag
Msgs(tag) == SelectSeq(stdout, LAMBDA m : m[1] = tag)

Terminated == pc = "exit"

\* the "f" lines of the output file, and those written for face k
FLines == { j \in DOMAIN out : out[j].tag = "f" }
LinesOf(k) == { j \in FLines : out[j].src = k }

\* no two of the face's indices at different positions are equal
Distinct(f) == \A a, b \in Elements : a # b => FV(f)[a] # FV(f)[b]

\* position e of face k was decoded out of range
OutOfRange(k, e) == FV(faceLog[k].raw)[e] >= VertexCount

ShortVertexSeen == Printed("Failed to read in vertex at")
ShortFaceSeen == \E k \in DOMAIN faceLog : faceLog[k].short
Aborted == Printed("Failed to open") \/ Printed("Failed to seek to")

\* C1: every index of every stored face is below the vertex count, and every
\* index decoded at or above the vertex count was clamped to 0.
C1_StoredIndicesInRange ==
    \A k \in DOMAIN meshFaces : \A e \in Elements :
        /\ FV(meshFaces[k])[e] < VertexCount
        /\ OutOfRange(k, e) => FV(meshFaces[k])[e] = 0

\* C2: every index on an "f" line is the stored index plus one and positive.
C2_WrittenIndexIsStoredPlusOne ==
    \A j \in FLines : \A e \in Elements :
        /\ out[j].vals[e] = FV(meshFaces[out[j].src])[e] + 1
        /\ out[j].vals[e] > 0

\* C3: of the faces the writer has passed, one with two equal indices has no
\* "f" line and one with pairwise distinct indices has exactly one; the "f"
\* lines are no more than the decoded faces.
C3_DegenerateFacesDropped ==
    (out # << >> /\ pc \in { "fwrite", "exit" }) =>
        /\ \A k \in 1 .. wi :
              Cardinality(LinesOf(k)) = IF Distinct(meshFaces[k]) THEN 1 ELSE 0
        /\ \A j \in FLines : out[j].src \in 1 .. wi
        /\ Cardinality(FLines) <= Len(meshFaces)

C3_Witness ==
    /\ Terminated /\ exitStatus = "EXIT_SUCCESS" /\ out # << >>
    /\ \E k \in DOMAIN meshFaces : ~Distinct(meshFaces[k]) /\ LinesOf(k) = { }
    /\ \E k \in DOMAIN meshFaces : Distinct(meshFaces[k]) /\ LinesOf(k) # { }

\* the faces with an index out of range, in decoding order, and the warnings
OutOfRangeFaces ==
    SelectSeq([ k \in 1 .. Len(faceLog) |-> k ],
              LAMBDA k : \E e \in Elements : OutOfRange(k, e))
OutOfRangeMsgs == Msgs("WARNING: Encountered out of bound vertex index")
AxisLabels == << "X", "Y", "Z", "W" >>

\* face k's out-of-range position e is named, with its value, in the warning
\* printed for face k
Diagnosed(k, e) ==
    /\ Len(OutOfRangeMsgs) = Len(OutOfRangeFaces)
    /\ \E m \in DOMAIN OutOfRangeFaces :
          /\ OutOfRangeFaces[m] = k
          /\ \E a \in DOMAIN OutOfRangeMsgs[m][2] :
                OutOfRangeMsgs[m][2][a] = << AxisLabels[e], FV(faceLog[k].raw)[e] >>

\* C4 as stated, for the x, y and z index: an index decoded out of range is
\* clamped to 0, is diagnosed, and its face is written with that index as 1.
C4_OutOfRangeEmittedAsOne ==
    \A k \in DOMAIN meshFaces : \A e \in 1 .. 3 :
        OutOfRange(k, e) =>
            /\ FV(meshFaces[k])[e] = 0
            /\ Diagnosed(k, e)
            /\ (k <= wi /\ out # << >>) =>
                  \E j \in LinesOf(k) : out[j].vals[e] = 1

\* C4: an x, y or z index decoded out of range is clamped to 0 and diagnosed;
\* once the writer has passed its face, the face has a line, with that index
\* as 1, if its stored indices are pairwise distinct, and no line otherwise.
C4_ClampedEmittedIfDistinct ==
    \A k \in DOMAIN meshFaces : \A e \in 1 .. 3 :
        OutOfRange(k, e) =>
            /\ FV(meshFaces[k])[e] = 0
            /\ Diagnosed(k, e)
            /\ (k <= wi /\ out # << >>) =>
                  IF Distinct(meshFaces[k])
                  THEN /\ LinesOf(k) # { }
                       /\ \A j \in LinesOf(k) : out[j].vals[e] = 1
                  ELSE LinesOf(k) = { }

C4_Witness ==
    /\ Terminated /\ exitStatus = "EXIT_SUCCESS"
    /\ \E k \in DOMAIN meshFaces : \E e \in 1 .. 3 :
          /\ OutOfRange(k, e)
          /\ \E j \in LinesOf(k) : out[j].vals[e] = 1

\* C5: with faceEndOffset <= faceStartOffset no face is stored and no "f"
\* line is written.
C5_EmptyFaceRangeNoFaces ==
    env.faceEndOffset <= env.faceStartOffset =>
        meshFaces = << >> /\ FLines = { }

C5_Witness ==
    /\ env.faceEndOffset < env.faceStartOffset
    /\ Printed("Attempting to read in faces...")
    /\ VertexCount > 0
    /\ Len(disk) > env.faceStartOffset
    /\ Terminated /\ exitStatus = "EXIT_SUCCESS" /\ out # << >>

\* C6: after a short read no further record of that extractor is appended,
\* and the run still ends in success unless it is aborted or faults.
C6_ShortReadStopsLoop ==
    /\ [][ /\ ShortVertexSeen => meshVertices' = meshVertices
           /\ ShortFaceSeen => meshFaces' = meshFaces ]_vars
    /\ []((Terminated /\ (ShortVertexSeen \/ ShortFaceSeen) /\ ~Aborted
             /\ exitStatus # "fault") => exitStatus = "EXIT_SUCCESS")

\* C7: a failed open or a failed required seek ends the process at once with
\* EXIT_FAILURE, the output never opened or written; the loops run only
\* after the seek before them was satisfied; nothing else gives EXIT_FAILURE.
C7_FatalOnlyOnOpenOrSeek ==
    /\ Aborted =>
          /\ Terminated /\ exitStatus = "EXIT_FAILURE"
          /\ stdout[Len(stdout)][1] \in { "Failed to open", "Failed to seek to" }
          /\ out = << >> /\ "out" \notin openStreams
    /\ pc \in { "vloop", "faces", "floop" } =>
          stream.seekable /\ ToLong(env.startOffset) >= 0
    /\ (pc = "floop" \/ meshFaces # << >>) => ToLong(env.faceStartOffset) >= 0
    /\ exitStatus = "EXIT_FAILURE" => Aborted
    /\ (Terminated /\ ~Aborted /\ exitStatus # "fault") => exitStatus = "EXIT_SUCCESS"

C7_Witness ==
    /\ Terminated /\ exitStatus = "EXIT_FAILURE"
    /\ Printed("Failed to seek to")
    /\ ToLong(env.faceStartOffset) < 0
    /\ VertexCount > 0
    /\ Printed("WARNING: Encountered NaN for vertex")

\* C8: the input and the output stream are never open together, the input is
\* closed before the output is opened, and no record is extracted once the
\* output has been opened.
C8_StreamsNeverOverlap ==
    /\ [](/\ ~({ "in", "out" } \subseteq openStreams)
          /\ (out # << >> \/ "out" \in openStreams) =>
                ("in" \notin openStreams /\ pc \in { "vwrite", "fwrite", "exit" }))
    /\ [][ ("out" \in openStreams' \/ out' # << >>) =>
              (meshVertices' = meshVertices /\ meshFaces' = meshFaces) ]_vars

C8_Witness ==
    /\ "out" \in openStreams
    /\ Len(out) > 1
    /\ meshFaces # << >>
    /\ pc = "fwrite" /\ wi > 0

\* C9: when the process has ended, every stream it opened has been closed
\* by it.
C9_StreamsReleasedOnExit ==
    Terminated => openStreams = { }

\* C10: no face record is decoded starting at or past faceEndOffset.
C10_NoDecodeAtOrPastFaceEnd ==
    \A k \in DOMAIN faceLog : ToULong(faceLog[k].at) < env.faceEndOffset

====
